---- MODULE Spec2Model ----
(***************************************************************************)
(* Model of mss: the command surface (cli/cli.c), the socket helpers       *)
(* (src/util.h), the capability constants (src/common.h) and the library   *)
(* operations the command surface calls (mss_install, mss_load,            *)
(* mss_uninstall, mss_handshake, mss_check_requirements).                  *)
(*                                                                         *)
(* One CLI invocation is one process: main parses argv, creates a context, *)
(* dispatches one command handler, destroys the context and exits.  The    *)
(* filesystem, the host process and the environment persist between        *)
(* invocations.                                                            *)
(***************************************************************************)
EXTENDS Integers, Sequences, FiniteSets, TLC

\* ------------------------------------------------------------- bounds
MaxArgs == 2
BundleParts == 2

\* ------------------------------------------------- program constants
OSAX_ATTRIB_DOCK_SPACES == 1
OSAX_ATTRIB_DPPM == 2
OSAX_ATTRIB_ADD_SPACE == 4
OSAX_ATTRIB_REM_SPACE == 8
OSAX_ATTRIB_MOV_SPACE == 16
OSAX_ATTRIB_SET_WINDOW == 32
OSAX_ATTRIB_ANIM_TIME == 64

OSAX_ATTRIB_ALL ==
    OSAX_ATTRIB_DOCK_SPACES + OSAX_ATTRIB_DPPM + OSAX_ATTRIB_ADD_SPACE
    + OSAX_ATTRIB_REM_SPACE + OSAX_ATTRIB_MOV_SPACE + OSAX_ATTRIB_SET_WINDOW
    + OSAX_ATTRIB_ANIM_TIME

SA_OPCODE_HANDSHAKE == 1

\* "2.1.23" as character codes
OSAX_VERSION == <<50, 46, 49, 46, 50, 51>>

\* Size of the version field of a handshake response (31 bytes + terminator)
VersionFieldLen == 32
\* Size of the capability bitmask of a handshake response
MaskLen == 4
\* [status: 1 byte][version field][bitmask]
HeaderLen == 1 + VersionFieldLen + MaskLen

\* --------------------------------------------------------- small sets
Commands == {"check", "install", "load", "uninstall", "status", "test"}
Tokens == Commands \cup {"-v", "-h", "-x", "bogus"}

Argvs == UNION {[1..n -> Tokens] : n \in 0..MaxArgs}

\* "9.9.9" as character codes
V999 == <<57, 46, 57, 46, 57>>
\* a version the service never terminates: VersionFieldLen non-zero bytes
VUnterminated == [i \in 1..VersionFieldLen |-> 65]

\* The builds of the service the host may activate: version and bitmask.
ServiceBuilds ==
    { [ver |-> V999, caps |-> 127],
      [ver |-> OSAX_VERSION, caps |-> 0],
      [ver |-> OSAX_VERSION, caps |-> 5],
      [ver |-> V999, caps |-> 383] }

NoBuild == [ver |-> <<>>, caps |-> 0]

\* The builds a synthetic service plays: those above, and bitmasks with a
\* single known flag, a single unknown bit, bit 30 alone, bits 0 to 30, and
\* four different bytes (0x01020304).
SyntheticBuilds ==
    ServiceBuilds \cup
    { [ver |-> V999, caps |-> m] :
        m \in {64, 126, 128, 1073741824, 2147483647, 16909060} }

\* ------------------------------------------------------ pure helpers
Min(S) == CHOOSE x \in S : \A y \in S : x <= y

Pow2(n) == 2 ^ n

\* the flag test written as an equality (capabilities == bit)
HasBit_equal(mask, bit) == mask = bit

\* capabilities & bit, for a single-bit constant
HasBit(mask, bit) == (mask \div bit) % 2 = 1

\* 4-byte little-endian encoding of a bitmask
LE32(m) == [i \in 1..MaskLen |-> (m \div (256 ^ (i - 1))) % 256]

\* value of 4 little-endian bytes starting at position p of b
FromLE32(b, p) ==
    b[p] + 256 * b[p + 1] + 65536 * b[p + 2] + 16777216 * b[p + 3]

PadVersion(v) == [i \in 1..VersionFieldLen |-> IF i <= Len(v) THEN v[i] ELSE 0]

\* The service's response frame: [status][version field][bitmask]
encode_handshake_response(status, build) ==
    <<status>> \o PadVersion(build.ver) \o LE32(build.caps)

\* [opcode: 1 byte][client protocol version]
encode_handshake_request(clientVersion) == <<SA_OPCODE_HANDSHAKE, clientVersion>>

ProtocolFailure == [ok |-> FALSE, ver |-> <<>>, caps |-> 0]

decode_handshake_response(b) ==
    IF Len(b) < HeaderLen THEN ProtocolFailure
    ELSE IF b[1] # 0 THEN ProtocolFailure
    ELSE LET term == {i \in 1..VersionFieldLen : b[1 + i] = 0}
         IN  IF term = {} THEN ProtocolFailure
             ELSE [ok |-> TRUE,
                   ver |-> SubSeq(b, 2, Min(term)),
                   caps |-> FromLE32(b, 2 + VersionFieldLen)]

\* What the peer may put on the wire for one handshake: the well-formed
\* response of its build, a rejection, a response whose version field holds
\* no terminator, and every truncation of these.
Responses(build) ==
    { SubSeq(encode_handshake_response(st, b), 1, k) :
        st \in {0, 1},
        b \in {build, [ver |-> VUnterminated, caps |-> build.caps]},
        k \in 0..HeaderLen }

\* ----------------------------------------------------------- state
VARIABLES
    fs,          \* filesystem: the installation path and the temporary path
    loaded,      \* an activated instance lives in the host process
    svc,         \* the build of that instance
    env,         \* the caller is root; the disk takes writes
    pc,          \* position of the CLI process ("idle": no process)
    stack,       \* return positions of the library calls in progress
    command,     \* main: const char *command
    g_verbose,   \* static bool g_verbose
    old_verbose, \* cmd_status: bool old_verbose
    logSink,     \* the library's log callback
    ctx,         \* mss_context of the process
    handlers,    \* command handlers main has called in this process
    res,         \* value returned by the last library call
    result,      \* main: int result
    sock,        \* system calls applied to the handshake's socket handle
    openFds,     \* sockets open in the process
    hsOut,       \* mss_handshake out parameters (version, capabilities)
    wire,        \* bytes a synthetic service has put on the connection
    report,      \* cmd_status: the lines printed, sub-check -> passed
    shown,       \* version and capability count printed by status / test
    unmet,       \* requirements mss_check_requirements found unmet
    signals,     \* what the host answered to its last two queries
    trace,       \* steps mss_load has taken in this process
    wrote,       \* mss_install copied the bundle in this process
    fs0,         \* the filesystem as main found it
    last         \* the process before this one: its command and exit status

sysVars == <<fs, loaded, svc, env>>
mainVars == <<command, g_verbose, old_verbose, logSink, ctx, handlers, result, fs0>>
sockVars == <<sock, openFds, hsOut, wire>>
outVars == <<report, shown, unmet, signals>>
libVars == <<trace, wrote>>
vars == <<fs, loaded, svc, env, pc, stack, command, g_verbose, old_verbose,
          logSink, ctx, handlers, res, result, sock, openFds, hsOut, wire, report, shown,
          unmet, signals, trace, wrote, fs0, last>>

Absent == [exists |-> FALSE, parts |-> 0, cur |-> FALSE]
\* a complete bundle; cur: it is the version this build would install
Bundle(cur) == [exists |-> TRUE, parts |-> BundleParts, cur |-> cur]

Complete(f) == f.exists /\ f.parts = BundleParts

\* no earlier process, or an external change since it ended
NoLast == [cmd |-> "", exit |-> 0]
Exited(cmd, code) == [cmd |-> cmd, exit |-> code]

NoWire == [got |-> FALSE, bytes |-> <<>>]

NoShown == [ver |-> <<>>, count |-> -1]
\* no query made
NoSignals == [sip |-> FALSE, bootarg |-> FALSE]

NoReport ==
    [Installation |-> "unset", Loading |-> "unset", Requirements |-> "unset"]

Init ==
    /\ fs \in [install : {Absent, Bundle(FALSE), Bundle(TRUE)}, tmp : {Absent}]
    /\ loaded = FALSE
    /\ svc = NoBuild
    /\ env \in [root : BOOLEAN, disk : BOOLEAN]
    /\ pc = "idle"
    /\ stack = <<>>
    /\ command = ""
    /\ g_verbose = FALSE
    /\ old_verbose = FALSE
    /\ logSink = "unset"
    /\ ctx = "none"
    /\ handlers = 0
    /\ res = "none"
    /\ result = 0
    /\ sock = <<>>
    /\ openFds = 0
    /\ hsOut = NoBuild
    /\ wire = NoWire
    /\ report = NoReport
    /\ shown = NoShown
    /\ unmet = {}
    /\ signals = NoSignals
    /\ trace = <<>>
    /\ wrote = FALSE
    /\ fs0 = fs
    /\ last = NoLast

\* ------------------------------------------------------------ main
IsOption(a) == a \in {"-v", "-h", "-x"}

\* the argument loop of main
RECURSIVE ParseFrom(_, _, _, _)
ParseFrom(argv, i, cmd, verbose) ==
    IF i > Len(argv)
    THEN [outcome |-> IF cmd = "" THEN "nocommand" ELSE "ok",
          command |-> cmd, verbose |-> verbose]
    ELSE IF argv[i] = "-v" THEN ParseFrom(argv, i + 1, cmd, TRUE)
    ELSE IF argv[i] = "-h"
    THEN [outcome |-> "help", command |-> cmd, verbose |-> verbose]
    ELSE IF IsOption(argv[i])
    THEN [outcome |-> "badoption", command |-> cmd, verbose |-> verbose]
    ELSE IF cmd = "" THEN ParseFrom(argv, i + 1, argv[i], verbose)
    ELSE [outcome |-> "unexpected", command |-> cmd, verbose |-> verbose]

ParseArgs(argv) == ParseFrom(argv, 1, "", FALSE)

\* Library call and return
Call(target, back) ==
    /\ pc' = target
    /\ stack' = <<back>> \o stack

Return(r) ==
    /\ pc' = Head(stack)
    /\ stack' = Tail(stack)
    /\ res' = r

\* main up to the dispatch: parse, set the log callback, create the context
main_start(argv) ==
    /\ pc = "idle"
    /\ LET p == ParseArgs(argv) IN
       IF p.outcome # "ok"
       THEN /\ last' = Exited("", IF p.outcome = "help" THEN 0 ELSE 1)
            /\ UNCHANGED <<pc, command, g_verbose, logSink, ctx, handlers, fs0>>
       ELSE \E created \in BOOLEAN :
              IF created
              THEN /\ pc' = "dispatch"
                   /\ command' = p.command
                   /\ g_verbose' = p.verbose
                   /\ logSink' = "log_callback"
                   /\ ctx' = "live"
                   /\ fs0' = fs
                   /\ UNCHANGED <<last, handlers>>
              ELSE /\ last' = Exited("", 1)
                   /\ UNCHANGED <<pc, command, g_verbose, logSink, ctx, handlers, fs0>>
    /\ UNCHANGED <<sysVars, stack, old_verbose, res, result, sockVars,
                   outVars, libVars>>

\* the dispatch returning 1 on an unknown command without the cleanup
main_dispatch_early_return ==
    /\ pc = "dispatch"
    /\ IF command \in Commands
       THEN /\ pc' = "cmd_" \o command
            /\ handlers' = handlers + 1
            /\ UNCHANGED result
       ELSE /\ pc' = "exit"
            /\ result' = 1
            /\ UNCHANGED handlers
    /\ UNCHANGED <<sysVars, stack, command, g_verbose, old_verbose, logSink,
                   ctx, res, fs0, sockVars, outVars, libVars, last>>

main_dispatch ==
    /\ pc = "dispatch"
    /\ IF command \in Commands
       THEN /\ pc' = "cmd_" \o command
            /\ handlers' = handlers + 1
            /\ UNCHANGED result
       ELSE /\ pc' = "cleanup"
            /\ result' = 1
            /\ UNCHANGED handlers
    /\ UNCHANGED <<sysVars, stack, command, g_verbose, old_verbose, logSink,
                   ctx, res, fs0, sockVars, outVars, libVars, last>>

\* the process is gone: its memory and descriptors with it
ProcessGone ==
    /\ pc' = "idle"
    /\ stack' = <<>>
    /\ command' = ""
    /\ g_verbose' = FALSE
    /\ old_verbose' = FALSE
    /\ logSink' = "unset"
    /\ ctx' = "none"
    /\ handlers' = 0
    /\ res' = "none"
    /\ result' = 0
    /\ sock' = <<>>
    /\ openFds' = 0
    /\ hsOut' = NoBuild
    /\ wire' = NoWire
    /\ report' = NoReport
    /\ shown' = NoShown
    /\ unmet' = {}
    /\ signals' = NoSignals
    /\ trace' = <<>>
    /\ wrote' = FALSE
    /\ fs0' = fs

\* mss_destroy(ctx);
main_cleanup ==
    /\ pc = "cleanup"
    /\ ctx' = "destroyed"
    /\ pc' = "exit"
    /\ UNCHANGED <<sysVars, stack, command, g_verbose, old_verbose, logSink,
                   handlers, res, result, fs0, sockVars, outVars, libVars,
                   last>>

\* return result;
main_return ==
    /\ pc = "exit"
    /\ last' = Exited(command, result)
    /\ ProcessGone
    /\ UNCHANGED sysVars

\* --------------------------------------------------- requirements
\* is_root with the comparisons inverted (!= 0)
is_root_inverted == ~env.root

\* return getuid() == 0 || geteuid() == 0;
is_root == env.root

\* The requirements found unmet; the security posture and the boot-time
\* flag are queries of the host.
mss_check_requirements(sip, bootarg) ==
    {r \in {"privileged user", "security posture", "boot flag"} :
        \/ r = "privileged user" /\ ~is_root
        \/ r = "security posture" /\ ~sip
        \/ r = "boot flag" /\ ~bootarg}

\* cmd_check that returns 0 whatever mss_check_requirements returned
cmd_check_always_ok ==
    /\ pc = "cmd_check"
    /\ \E sip \in BOOLEAN, bootarg \in BOOLEAN :
         LET missing == mss_check_requirements(sip, bootarg) IN
         /\ unmet' = missing
         /\ signals' = [sip |-> sip, bootarg |-> bootarg]
         /\ res' = (IF missing = {} THEN "Success" ELSE "RequirementsError")
         /\ result' = 0
    /\ pc' = "cleanup"
    /\ UNCHANGED <<sysVars, stack, command, g_verbose, old_verbose, logSink,
                   ctx, handlers, fs0, sockVars, report, shown, libVars, last>>

cmd_check ==
    /\ pc = "cmd_check"
    /\ \E sip \in BOOLEAN, bootarg \in BOOLEAN :
         LET missing == mss_check_requirements(sip, bootarg) IN
         /\ unmet' = missing
         /\ signals' = [sip |-> sip, bootarg |-> bootarg]
         /\ res' = (IF missing = {} THEN "Success" ELSE "RequirementsError")
         /\ result' = (IF missing = {} THEN 0 ELSE 1)
    /\ pc' = "cleanup"
    /\ UNCHANGED <<sysVars, stack, command, g_verbose, old_verbose, logSink,
                   ctx, handlers, fs0, sockVars, report, shown, libVars, last>>

\* ------------------------------------------------------ filesystem
\* is_installed with the comparison of stat's result dropped
is_installed_negated == ~fs.install.exists

\* stat("/Library/ScriptingAdditions/mss.osax", &st) == 0
is_installed == fs.install.exists

UpToDate == Complete(fs.install) /\ fs.install.cur

\* ------------------------------------------------------- mss_install
\* Already present and version-equal: success without rewriting.  Permission
\* denial or a missing source artifact (source: the artifact is there):
\* InstallError, nothing written.  Otherwise the copy starts at the
\* temporary path.
mss_install_begin ==
    /\ pc = "mss_install"
    /\ \E source \in BOOLEAN :
         IF UpToDate
         THEN /\ Return("Success")
              /\ UNCHANGED <<fs, wrote>>
         ELSE IF ~is_root \/ ~source
         THEN /\ Return("InstallError")
              /\ UNCHANGED <<fs, wrote>>
         ELSE /\ fs' = [fs EXCEPT !.tmp = [exists |-> TRUE, parts |-> 0,
                                           cur |-> TRUE]]
              /\ wrote' = TRUE
              /\ pc' = "inst_write"
              /\ UNCHANGED <<stack, res>>
    /\ UNCHANGED <<loaded, svc, env, mainVars, sockVars, outVars, trace, last>>

\* One part of the bundle is written to the temporary path; a write failure
\* removes the partially written target.
mss_install_write ==
    /\ pc = "inst_write"
    /\ IF ~env.disk
       THEN /\ fs' = [fs EXCEPT !.tmp = Absent]
            /\ Return("InstallError")
       ELSE /\ fs' = [fs EXCEPT !.tmp.parts = @ + 1]
            /\ pc' = (IF fs.tmp.parts + 1 = BundleParts THEN "inst_rename"
                      ELSE "inst_write")
            /\ UNCHANGED <<stack, res>>
    /\ UNCHANGED <<loaded, svc, env, mainVars, sockVars, outVars, libVars, last>>

\* rename(temporary path, installation path)
mss_install_rename ==
    /\ pc = "inst_rename"
    /\ fs' = [install |-> fs.tmp, tmp |-> Absent]
    /\ Return("Success")
    /\ UNCHANGED <<loaded, svc, env, mainVars, sockVars, outVars, libVars, last>>

cmd_install_call ==
    /\ pc = "cmd_install"
    /\ Call("mss_install", "cmd_install_ret")
    /\ UNCHANGED <<sysVars, mainVars, res, sockVars, outVars, libVars, last>>

\* cmd_install with the test of the result inverted
cmd_install_ret_inverted ==
    /\ pc = "cmd_install_ret"
    /\ result' = (IF res # "Success" THEN 0 ELSE 1)
    /\ pc' = "cleanup"
    /\ UNCHANGED <<sysVars, stack, command, g_verbose, old_verbose, logSink,
                   ctx, handlers, res, fs0, sockVars, outVars, libVars, last>>

cmd_install_ret ==
    /\ pc = "cmd_install_ret"
    /\ result' = (IF res = "Success" THEN 0 ELSE 1)
    /\ pc' = "cleanup"
    /\ UNCHANGED <<sysVars, stack, command, g_verbose, old_verbose, logSink,
                   ctx, handlers, res, fs0, sockVars, outVars, libVars, last>>

\* ----------------------------------------------------- mss_uninstall
\* Removes the installed bundle; a no-op success when it is absent.
mss_uninstall ==
    /\ pc = "mss_uninstall"
    /\ IF ~is_installed
       THEN /\ Return("Success")
            /\ UNCHANGED fs
       ELSE IF ~is_root
       THEN /\ Return("UninstallError")
            /\ UNCHANGED fs
       ELSE /\ fs' = [fs EXCEPT !.install = Absent]
            /\ Return("Success")
    /\ UNCHANGED <<loaded, svc, env, mainVars, sockVars, outVars, libVars, last>>

\* cmd_uninstall that also drops the activated instance
cmd_uninstall_call_unloads ==
    /\ pc = "cmd_uninstall"
    /\ Call("mss_uninstall", "cmd_uninstall_ret")
    /\ loaded' = FALSE
    /\ svc' = NoBuild
    /\ UNCHANGED <<fs, env, mainVars, res, sockVars, outVars, libVars, last>>

cmd_uninstall_call ==
    /\ pc = "cmd_uninstall"
    /\ Call("mss_uninstall", "cmd_uninstall_ret")
    /\ UNCHANGED <<sysVars, mainVars, res, sockVars, outVars, libVars, last>>

\* cmd_uninstall with the test of the result inverted
cmd_uninstall_ret_inverted ==
    /\ pc = "cmd_uninstall_ret"
    /\ result' = (IF res # "Success" THEN 0 ELSE 1)
    /\ pc' = "cleanup"
    /\ UNCHANGED <<sysVars, stack, command, g_verbose, old_verbose, logSink,
                   ctx, handlers, res, fs0, sockVars, outVars, libVars, last>>

cmd_uninstall_ret ==
    /\ pc = "cmd_uninstall_ret"
    /\ result' = (IF res = "Success" THEN 0 ELSE 1)
    /\ pc' = "cleanup"
    /\ UNCHANGED <<sysVars, stack, command, g_verbose, old_verbose, logSink,
                   ctx, handlers, res, fs0, sockVars, outVars, libVars, last>>

\* ------------------------------------------------------- transport
\* *sockfd = socket(AF_UNIX, SOCK_STREAM, 0); return *sockfd != -1;
socket_open(ok) == IF ok THEN <<"socket">> ELSE <<>>

\* connect(sockfd, path) != -1: the peer listens while an instance is loaded
socket_connect(s, listening) == IF listening THEN Append(s, "connect") ELSE s

\* socket_close without the close
socket_close_leaks(s) == Append(s, "shutdown")

\* shutdown(sockfd, SHUT_RDWR); close(sockfd);
socket_close(s) == Append(Append(s, "shutdown"), "close")

Closes(s) == Cardinality({i \in DOMAIN s : s[i] = "close"})

\* ----------------------------------------------------- mss_handshake
\* open, connect, send the request, receive, decode, close (always).
mss_handshake_open ==
    /\ pc = "mss_handshake"
    /\ hsOut' = NoBuild
    /\ \E ok \in BOOLEAN :
         /\ sock' = socket_open(ok)
         /\ IF ok
            THEN /\ openFds' = openFds + 1
                 /\ pc' = "hs_connect"
                 /\ UNCHANGED <<stack, res>>
            ELSE /\ Return("ConnectError")
                 /\ UNCHANGED openFds
    /\ UNCHANGED <<sysVars, mainVars, wire, outVars, libVars, last>>

mss_handshake_connect ==
    /\ pc = "hs_connect"
    /\ sock' = socket_connect(sock, loaded)
    /\ IF loaded
       THEN /\ pc' = "hs_exchange"
            /\ UNCHANGED res
       ELSE /\ pc' = "hs_close"
            /\ res' = "ConnectError"
    /\ UNCHANGED <<sysVars, stack, mainVars, openFds, hsOut, wire, outVars,
                   libVars, last>>

\* what decoding yields for each response a build of the service may send
DecodedResponses ==
    [build \in ServiceBuilds |->
        {decode_handshake_response(b) : b \in Responses(build)}]

\* the response has been decoded into d: set the out parameters
Decoded(d) ==
    IF d.ok
    THEN /\ hsOut' = [ver |-> d.ver, caps |-> d.caps]
         /\ res' = "Success"
    ELSE /\ res' = "ProtocolError"
         /\ UNCHANGED hsOut

\* send the request, receive up to a fixed maximum, decode
mss_handshake_exchange ==
    /\ pc = "hs_exchange"
    /\ ~wire.got
    /\ \/ /\ res' \in {"IoError", "TimeoutError"}
          /\ UNCHANGED hsOut
       \/ /\ loaded
          /\ \E d \in DecodedResponses[svc] : Decoded(d)
    /\ pc' = "hs_close"
    /\ UNCHANGED <<sysVars, stack, mainVars, sock, openFds, wire, outVars,
                   libVars, last>>

mss_handshake_close ==
    /\ pc = "hs_close"
    /\ sock' = socket_close(sock)
    /\ openFds' = openFds - (Closes(sock') - Closes(sock))
    /\ Return(res)
    /\ UNCHANGED <<sysVars, mainVars, hsOut, wire, outVars, libVars, last>>

\* ---------------------------------------------------------- mss_load
\* install if not installed, activate, verify by handshake.
mss_load_begin ==
    /\ pc = "mss_load"
    /\ IF is_installed
       THEN /\ trace' = Append(trace, "installed")
            /\ pc' = "load_activate"
            /\ UNCHANGED stack
       ELSE /\ Call("mss_install", "load_installed")
            /\ UNCHANGED trace
    /\ UNCHANGED <<sysVars, mainVars, res, sockVars, outVars, wrote, last>>

mss_load_installed ==
    /\ pc = "load_installed"
    /\ IF res = "Success"
       THEN /\ trace' = Append(trace, "install_ok")
            /\ pc' = "load_activate"
            /\ UNCHANGED <<stack, res>>
       ELSE /\ trace' = Append(trace, "install_failed")
            /\ Return("InstallError")
    /\ UNCHANGED <<sysVars, mainVars, sockVars, outVars, wrote, last>>

\* The host mechanism: it reports success or failure, and the instance may
\* or may not have become active whatever it reports.
mss_load_activate ==
    /\ pc = "load_activate"
    /\ trace' = Append(trace, "activate")
    /\ \E reported \in BOOLEAN, took \in BOOLEAN, build \in ServiceBuilds :
         /\ loaded' = (loaded \/ took)
         /\ svc' = (IF ~loaded /\ took THEN build ELSE svc)
         /\ IF reported
            THEN /\ Call("mss_handshake", "load_verify")
                 /\ UNCHANGED res
            ELSE Return("ActivationError")
    /\ UNCHANGED <<fs, env, mainVars, sockVars, outVars, wrote, last>>

mss_load_verify ==
    /\ pc = "load_verify"
    /\ trace' = Append(trace, IF res = "Success" THEN "handshake_ok"
                              ELSE "handshake_failed")
    /\ IF res = "Success" /\ hsOut.caps # 0
       THEN Return("Success")
       ELSE Return("VerificationError")
    /\ UNCHANGED <<sysVars, mainVars, sockVars, outVars, wrote, last>>

cmd_load_call ==
    /\ pc = "cmd_load"
    /\ Call("mss_load", "cmd_load_ret")
    /\ UNCHANGED <<sysVars, mainVars, res, sockVars, outVars, libVars, last>>

\* cmd_load that reports success whatever mss_load returned
cmd_load_ret_always_ok ==
    /\ pc = "cmd_load_ret"
    /\ result' = 0
    /\ pc' = "cleanup"
    /\ UNCHANGED <<sysVars, stack, command, g_verbose, old_verbose, logSink,
                   ctx, handlers, res, fs0, sockVars, outVars, libVars, last>>

\* cmd_load with the test of the result inverted
cmd_load_ret_inverted ==
    /\ pc = "cmd_load_ret"
    /\ result' = (IF res # "Success" THEN 0 ELSE 1)
    /\ pc' = "cleanup"
    /\ UNCHANGED <<sysVars, stack, command, g_verbose, old_verbose, logSink,
                   ctx, handlers, res, fs0, sockVars, outVars, libVars, last>>

cmd_load_ret ==
    /\ pc = "cmd_load_ret"
    /\ result' = (IF res = "Success" THEN 0 ELSE 1)
    /\ pc' = "cleanup"
    /\ UNCHANGED <<sysVars, stack, command, g_verbose, old_verbose, logSink,
                   ctx, handlers, res, fs0, sockVars, outVars, libVars, last>>

\* -------------------------------------------------------- cmd_status
Mark(ok) == IF ok THEN "pass" ELSE "fail"

\* the loop of cmd_status stopping one flag short (i < 6)
StatusCapCount_short(capabilities) ==
    Cardinality({i \in 0..5 : HasBit(capabilities, Pow2(i))})

\* for (int i = 0; i < 7; i++) if (capabilities & (1 << i)) cap_count++;
StatusCapCount(capabilities) ==
    Cardinality({i \in 0..6 : HasBit(capabilities, Pow2(i))})

\* The InstallationState a report stands for: no bundle at the installation
\* path is Uninstalled (also while an instance activated earlier still
\* answers); a bundle whose service answers is Loaded; a bundle whose
\* service does not answer is InstalledNotLoaded.
InstallationState(r) ==
    IF r.Installation # "pass" THEN "Uninstalled"
    ELSE IF r.Loading = "pass" THEN "Loaded"
    ELSE "InstalledNotLoaded"

\* cmd_status that goes to the handshake without the is_installed check
cmd_status_begin_unpaired ==
    /\ pc = "cmd_status"
    /\ Call("mss_handshake", "status_loading")
    /\ UNCHANGED <<sysVars, mainVars, res, sockVars, outVars, libVars, last>>

\* cmd_status that probes with mss_load instead of mss_handshake
cmd_status_begin_loads ==
    /\ pc = "cmd_status"
    /\ report' = [report EXCEPT !.Installation = Mark(is_installed)]
    /\ Call("mss_load", "status_loading")
    /\ UNCHANGED <<sysVars, mainVars, res, sockVars, shown, unmet, signals,
                   libVars,
                   last>>

cmd_status_begin ==
    /\ pc = "cmd_status"
    /\ report' = [report EXCEPT !.Installation = Mark(is_installed)]
    /\ Call("mss_handshake", "status_loading")
    /\ UNCHANGED <<sysVars, mainVars, res, sockVars, shown, unmet, signals,
                   libVars, last>>

cmd_status_loading ==
    /\ pc = "status_loading"
    /\ report' = [report EXCEPT !.Loading = Mark(res = "Success")]
    /\ shown' = (IF res = "Success"
                 THEN [ver |-> hsOut.ver, count |-> StatusCapCount(hsOut.caps)]
                 ELSE shown)
    /\ old_verbose' = g_verbose
    /\ g_verbose' = FALSE
    /\ pc' = "status_requirements"
    /\ UNCHANGED <<sysVars, stack, command, logSink, ctx, handlers, res, result, fs0,
                   sockVars, unmet, signals, libVars, last>>

\* cmd_status that returns 1 when the requirements are not met
cmd_status_requirements_fails ==
    /\ pc = "status_requirements"
    /\ \E sip \in BOOLEAN, bootarg \in BOOLEAN :
         LET missing == mss_check_requirements(sip, bootarg) IN
         /\ unmet' = missing
         /\ signals' = [sip |-> sip, bootarg |-> bootarg]
         /\ report' = [report EXCEPT !.Requirements = Mark(missing = {})]
         /\ result' = (IF missing = {} THEN 0 ELSE 1)
    /\ g_verbose' = old_verbose
    /\ pc' = "cleanup"
    /\ UNCHANGED <<sysVars, stack, command, old_verbose, logSink, ctx, handlers, res,
                   fs0, sockVars, shown, libVars, last>>

cmd_status_requirements ==
    /\ pc = "status_requirements"
    /\ \E sip \in BOOLEAN, bootarg \in BOOLEAN :
         LET missing == mss_check_requirements(sip, bootarg) IN
         /\ unmet' = missing
         /\ signals' = [sip |-> sip, bootarg |-> bootarg]
         /\ report' = [report EXCEPT !.Requirements = Mark(missing = {})]
    /\ g_verbose' = old_verbose
    /\ result' = 0
    /\ pc' = "cleanup"
    /\ UNCHANGED <<sysVars, stack, command, old_verbose, logSink, ctx, handlers, res,
                   fs0, sockVars, shown, libVars, last>>

\* ---------------------------------------------------------- cmd_test
MSS_CAPS ==
    {OSAX_ATTRIB_DOCK_SPACES, OSAX_ATTRIB_DPPM, OSAX_ATTRIB_ADD_SPACE,
     OSAX_ATTRIB_REM_SPACE, OSAX_ATTRIB_MOV_SPACE, OSAX_ATTRIB_SET_WINDOW,
     OSAX_ATTRIB_ANIM_TIME}

\* cmd_test counting every bit set in the bitmask
TestCapCount_anybit(capabilities) ==
    Cardinality({i \in 0..30 : HasBit(capabilities, Pow2(i))})

TestCapCount(capabilities) ==
    Cardinality({c \in MSS_CAPS : HasBit(capabilities, c)})

cmd_test_call ==
    /\ pc = "cmd_test"
    /\ Call("mss_handshake", "cmd_test_ret")
    /\ UNCHANGED <<sysVars, mainVars, res, sockVars, outVars, libVars, last>>

\* cmd_test without the test of the handshake's result
cmd_test_ret_unchecked ==
    /\ pc = "cmd_test_ret"
    /\ shown' = [ver |-> hsOut.ver, count |-> TestCapCount(hsOut.caps)]
    /\ result' = (IF TestCapCount(hsOut.caps) = 7 THEN 0 ELSE 1)
    /\ pc' = "cleanup"
    /\ UNCHANGED <<sysVars, stack, command, g_verbose, old_verbose, logSink,
                   ctx, handlers, res, fs0, sockVars, report, unmet, signals,
                   libVars, last>>

cmd_test_ret ==
    /\ pc = "cmd_test_ret"
    /\ IF res # "Success"
       THEN /\ result' = 1
            /\ UNCHANGED shown
       ELSE /\ shown' = [ver |-> hsOut.ver, count |-> TestCapCount(hsOut.caps)]
            /\ result' = (IF TestCapCount(hsOut.caps) = 7 THEN 0 ELSE 1)
    /\ pc' = "cleanup"
    /\ UNCHANGED <<sysVars, stack, command, g_verbose, old_verbose, logSink,
                   ctx, handlers, res, fs0, sockVars, report, unmet, signals,
                   libVars, last>>

\* ------------------------------------------------------ environment
\* the process is killed at its current step
Kill ==
    /\ pc # "idle"
    /\ ProcessGone
    /\ last' = NoLast
    /\ UNCHANGED sysVars

\* the host process restarts: the activated instance is gone
HostRestart ==
    /\ loaded
    /\ loaded' = FALSE
    /\ svc' = NoBuild
    /\ last' = NoLast
    /\ UNCHANGED <<fs, env, pc, stack, mainVars, res, sockVars, outVars,
                   libVars>>

\* an external change of a requirement signal or an install precondition
EnvChange ==
    /\ \E k \in {"root", "disk"} :
         /\ k = "root" => pc = "idle"
         /\ env' = [env EXCEPT ![k] = ~@]
    /\ last' = NoLast
    /\ UNCHANGED <<fs, loaded, svc, pc, stack, mainVars, res, sockVars,
                   outVars, libVars>>

\* ------------------------------------------------------------ Next
ProcStep ==
    \/ main_dispatch
    \/ main_cleanup
    \/ main_return
    \/ cmd_check
    \/ cmd_install_call
    \/ cmd_install_ret
    \/ mss_install_begin
    \/ mss_install_write
    \/ mss_install_rename
    \/ cmd_uninstall_call
    \/ cmd_uninstall_ret
    \/ mss_uninstall
    \/ cmd_load_call
    \/ cmd_load_ret
    \/ mss_load_begin
    \/ mss_load_installed
    \/ mss_load_activate
    \/ mss_load_verify
    \/ mss_handshake_open
    \/ mss_handshake_connect
    \/ mss_handshake_exchange
    \/ mss_handshake_close
    \/ cmd_status_begin
    \/ cmd_status_loading
    \/ cmd_status_requirements
    \/ cmd_test_call
    \/ cmd_test_ret

Next ==
    \/ \E argv \in Argvs : main_start(argv)
    \/ ProcStep
    \/ Kill
    \/ HostRestart
    \/ EnvChange

Spec == Init /\ [][Next]_vars

\* ------------------------------- handshake against a synthetic service
\* The status and test commands run against a service whose bytes on the
\* connection are chosen by the harness and stay visible in wire.
synthetic_service_send ==
    /\ pc = "hs_exchange"
    /\ ~wire.got
    /\ \E b \in Responses(svc) : wire' = [got |-> TRUE, bytes |-> b]
    /\ UNCHANGED <<sysVars, pc, stack, mainVars, res, sock, openFds, hsOut,
                   outVars, libVars, last>>

\* mss_handshake: receive what the service sent, decode
mss_handshake_receive ==
    /\ pc = "hs_exchange"
    /\ wire.got
    /\ Decoded(decode_handshake_response(wire.bytes))
    /\ pc' = "hs_close"
    /\ UNCHANGED <<sysVars, stack, mainVars, sock, openFds, wire, outVars,
                   libVars, last>>

\* main has parsed "status" or "test" and created the context; an instance
\* of some build is loaded
HandshakeInit ==
    /\ fs \in [install : {Absent, Bundle(TRUE)}, tmp : {Absent}]
    /\ loaded = TRUE
    /\ svc \in SyntheticBuilds
    /\ env \in [root : BOOLEAN, disk : {TRUE}]
    /\ pc = "dispatch"
    /\ stack = <<>>
    /\ command \in {"status", "test"}
    /\ g_verbose \in BOOLEAN
    /\ old_verbose = FALSE
    /\ logSink = "log_callback"
    /\ ctx = "live"
    /\ handlers = 0
    /\ res = "none"
    /\ result = 0
    /\ sock = <<>>
    /\ openFds = 0
    /\ hsOut = NoBuild
    /\ wire = NoWire
    /\ report = NoReport
    /\ shown = NoShown
    /\ unmet = {}
    /\ signals = NoSignals
    /\ trace = <<>>
    /\ wrote = FALSE
    /\ fs0 = fs
    /\ last = NoLast

HandshakeNext ==
    \/ main_dispatch
    \/ cmd_status_begin
    \/ cmd_test_call
    \/ mss_handshake_open
    \/ mss_handshake_connect
    \/ synthetic_service_send
    \/ mss_handshake_receive
    \/ mss_handshake_close
    \/ cmd_status_loading
    \/ cmd_status_requirements
    \/ cmd_test_ret
    \/ main_cleanup
    \/ main_return

HandshakeSpec == HandshakeInit /\ [][HandshakeNext]_vars

\* ------------------------------- handshake against an unresponsive service
\* receive that waits for the response without a bound
mss_handshake_blocks ==
    /\ pc = "hs_exchange"
    /\ ~wire.got
    /\ UNCHANGED vars

\* The service has accepted the connection and sends nothing: the bounded
\* wait of receive runs out.
mss_handshake_timeout ==
    /\ pc = "hs_exchange"
    /\ ~wire.got
    /\ res' = "TimeoutError"
    /\ pc' = "hs_close"
    /\ UNCHANGED <<sysVars, stack, mainVars, sock, openFds, hsOut, wire,
                   outVars, libVars, last>>

\* main has parsed "status", "test" or "load" and created the context; an
\* instance is loaded and listens
TimeoutInit ==
    /\ fs \in [install : {Absent, Bundle(TRUE)}, tmp : {Absent}]
    /\ loaded = TRUE
    /\ svc \in ServiceBuilds
    /\ env \in [root : BOOLEAN, disk : BOOLEAN]
    /\ pc = "dispatch"
    /\ stack = <<>>
    /\ command \in {"status", "test", "load"}
    /\ g_verbose \in BOOLEAN
    /\ old_verbose = FALSE
    /\ logSink = "log_callback"
    /\ ctx = "live"
    /\ handlers = 0
    /\ res = "none"
    /\ result = 0
    /\ sock = <<>>
    /\ openFds = 0
    /\ hsOut = NoBuild
    /\ wire = NoWire
    /\ report = NoReport
    /\ shown = NoShown
    /\ unmet = {}
    /\ signals = NoSignals
    /\ trace = <<>>
    /\ wrote = FALSE
    /\ fs0 = fs
    /\ last = NoLast

TimeoutNext ==
    \/ main_dispatch
    \/ cmd_status_begin
    \/ cmd_status_loading
    \/ cmd_status_requirements
    \/ cmd_test_call
    \/ cmd_test_ret
    \/ cmd_load_call
    \/ cmd_load_ret
    \/ mss_load_begin
    \/ mss_load_installed
    \/ mss_load_activate
    \/ mss_load_verify
    \/ mss_install_begin
    \/ mss_install_write
    \/ mss_install_rename
    \/ mss_handshake_open
    \/ mss_handshake_connect
    \/ mss_handshake_timeout
    \/ mss_handshake_close
    \/ main_cleanup
    \/ main_return

\* single-threaded, synchronous: the process keeps taking its next step
TimeoutSpec == TimeoutInit /\ [][TimeoutNext]_vars /\ WF_vars(TimeoutNext)

\* ============================================================ claims
LoadReturned == command = "load" /\ pc \in {"cmd_load_ret", "cleanup"}

\* mss_load got the bundle in place, the host reported the activation done
\* and the handshake after it failed
VerificationFailed ==
    /\ Len(trace) = 3
    /\ trace[1] \in {"installed", "install_ok"}
    /\ trace[2] = "activate"
    /\ trace[3] = "handshake_failed"

\* C1: when the bundle is in place (installed before, or installed by this
\* load), the host reports the activation done and the handshake that
\* follows fails, mss_load returns VerificationError and the load command
\* exits 1, never 0.
C1_VerificationFailureFailsLoad ==
    (LoadReturned /\ VerificationFailed)
        => /\ res = "VerificationError"
           /\ pc = "cleanup" => result = 1

\* a load that installed the bundle, had the activation reported done and
\* then could not connect, has returned
C1_Witness ==
    /\ pc = "cleanup"
    /\ command = "load"
    /\ trace = <<"install_ok", "activate", "handshake_failed">>
    /\ ~loaded
    /\ result = 1

\* C2: the load command exits 0 only if mss_load returned success, and
\* mss_load returns success only after, in this order, the bundle was found
\* installed or was installed, the activation was triggered, and a handshake
\* succeeded with at least one capability bit; the activation step is never
\* reached while the bundle is absent.
C2_LoadSuccessOrder ==
    /\ (command = "load" /\ pc = "cleanup" /\ result = 0) => res = "Success"
    /\ (LoadReturned /\ res = "Success")
          => /\ trace \in {<<"installed", "activate", "handshake_ok">>,
                           <<"install_ok", "activate", "handshake_ok">>}
             /\ hsOut.caps # 0
             /\ Complete(fs.install)
    /\ pc = "load_activate" => fs.install.exists
    /\ (LoadReturned /\ trace # <<>>
          /\ trace[Len(trace)] = "handshake_ok" /\ hsOut.caps = 0)
          => res # "Success" /\ (pc = "cleanup" => result = 1)

\* a load whose handshake succeeded with an empty capability set has failed
C2_Witness ==
    /\ pc = "cleanup"
    /\ command = "load"
    /\ trace = <<"install_ok", "activate", "handshake_ok">>
    /\ hsOut.caps = 0
    /\ result = 1

\* C3: in every state, also after a failed install and after a kill at any
\* step of install, the installation path is absent or holds a complete
\* bundle, and is_installed is true only of a complete bundle.
C3_InstallAllOrNothing ==
    /\ fs.install.exists => Complete(fs.install)
    /\ is_installed => Complete(fs.install)

\* the process was killed while the copy was part-way
C3_Witness ==
    /\ pc = "idle"
    /\ last = NoLast
    /\ fs.tmp.exists
    /\ fs.tmp.parts > 0
    /\ fs.tmp.parts < BundleParts
    /\ ~fs.install.exists

InstallReturned == command = "install" /\ pc = "cleanup"

UninstallReturned == command = "uninstall" /\ pc = "cleanup"

C6_UninstallKeepsInstance ==
    /\ [](UninstallReturned /\ result = 0 => ~fs.install.exists)
    /\ [][(command = "uninstall" /\ ProcStep)
             => (loaded' = loaded /\ svc' = svc)]_vars
    /\ [][(loaded /\ ~loaded') => HostRestart]_vars

\* the bundle was removed while an instance was loaded, and the test command
\* run right after still gets a successful handshake
C6_Witness ==
    /\ command = "test"
    /\ pc = "cleanup"
    /\ last = Exited("uninstall", 0)
    /\ ~fs.install.exists
    /\ loaded
    /\ res = "Success"
    /\ result = 0

StatusReturned == command = "status" /\ pc = "cleanup"

\* C7: the status command always returns 0 with one entry per sub-check,
\* each marked by what its sub-check found; with the bundle absent, the
\* handshake failed and the requirements unmet all three are marked failed.
\* No step of status is ever blocked.
C7_StatusNeverFails ==
    /\ StatusReturned
          => /\ result = 0
             /\ report.Installation = Mark(fs.install.exists)
             /\ report.Loading = Mark(res = "Success")
             /\ report.Requirements = Mark(unmet = {})
    /\ (StatusReturned /\ ~fs.install.exists /\ res # "Success" /\ unmet # {})
          => /\ result = 0
             /\ report = [Installation |-> "fail", Loading |-> "fail",
                          Requirements |-> "fail"]
    /\ (command = "status" /\ pc # "idle") => ENABLED ProcStep

\* status has returned with the service entirely absent
C7_Witness ==
    /\ StatusReturned
    /\ ~fs.install.exists
    /\ ~loaded
    /\ res = "ConnectError"
    /\ unmet = {"privileged user", "security posture", "boot flag"}
    /\ report = [Installation |-> "fail", Loading |-> "fail",
                 Requirements |-> "fail"]
    /\ result = 0

\* C8: no step of the status command or of the check command changes the
\* filesystem or the activated instance.
C8_StatusCheckReadOnly ==
    [][(command \in {"status", "check"} /\ ProcStep)
          => (fs' = fs /\ loaded' = loaded /\ svc' = svc)]_vars

\* status has returned with a sub-check passed and sub-checks failed
C8_Witness ==
    /\ StatusReturned
    /\ report.Installation = "pass"
    /\ report.Loading = "fail"
    /\ report.Requirements = "fail"
    /\ fs = fs0

InHandshake == pc \in {"hs_connect", "hs_exchange", "hs_close"}

ClosedProperly(s) ==
    /\ Len(s) >= 3
    /\ s[1] = "socket"
    /\ s[Len(s) - 1] = "shutdown"
    /\ s[Len(s)] = "close"

\* C9: at most one socket is open at any time; outside a handshake call
\* none is open, and the handle the last handshake opened has been shut
\* down and then closed, whatever the outcome of the handshake.
C9_SocketsClosed ==
    /\ openFds \in {0, 1}
    /\ ~InHandshake => /\ openFds = 0
                       /\ sock # <<>> => ClosedProperly(sock)

\* a handshake that failed to decode the response has returned to cmd_test
C9_Witness ==
    /\ pc = "cmd_test_ret"
    /\ res = "ProtocolError"
    /\ sock = <<"socket", "connect", "shutdown", "close">>
    /\ openFds = 0

Truncated == wire.got /\ Len(wire.bytes) < HeaderLen

\* C10: once a response shorter than the fixed header has been received,
\* the handshake's result is ProtocolError and its out parameters are not
\* set; the test command then exits 1 and prints no version or capability,
\* the status command reports "not loaded".
C10_TruncatedIsProtocolError ==
    (Truncated /\ pc # "hs_exchange")
        => /\ res = "ProtocolError"
           /\ hsOut = NoBuild
           /\ (command = "test" /\ pc = "cleanup")
                 => (result = 1 /\ shown = NoShown)
           /\ (command = "status" /\ pc \in {"status_requirements", "cleanup"})
                 => (report.Loading = "fail" /\ shown = NoShown)

\* the test command has returned after a response cut inside the bitmask
C10_Witness ==
    /\ command = "test"
    /\ pc = "cleanup"
    /\ wire.got
    /\ Len(wire.bytes) = HeaderLen - 1
    /\ wire.bytes[1] = 0
    /\ result = 1

\* ---------------------------------------------------------------- C11
\* number of bits set in m
RECURSIVE PopCount(_)
PopCount(m) == IF m = 0 THEN 0 ELSE (m % 2) + PopCount(m \div 2)

\* the bitmask field of a full response frame
MaskBytes(b) == SubSeq(b, 2 + VersionFieldLen, HeaderLen)

\* a handshake against the synthetic service has succeeded
HandshakeDone == wire.got /\ pc # "hs_exchange" /\ res = "Success"

\* the capability count a command has printed after a successful handshake
CountShown ==
    /\ HandshakeDone
    /\ \/ command = "status" /\ pc \in {"status_requirements", "cleanup"}
       \/ command = "test" /\ pc = "cleanup"

\* the bitmask the handshake returned is the one the service encoded, and
\* encoding it again gives the bytes received
DecodeEncodeLossless ==
    HandshakeDone
        => /\ hsOut.caps = svc.caps
           /\ LE32(hsOut.caps) = MaskBytes(wire.bytes)

\* C11 as stated: decoding a bitmask and encoding it again is lossless,
\* bits outside the 7 known flags included, and the count of the decoded
\* set is the population count of the bitmask.
C11_CountIsPopCount ==
    /\ DecodeEncodeLossless
    /\ CountShown => shown.count = PopCount(hsOut.caps)

\* C11 amended: decoding a bitmask and encoding it again is lossless, bits
\* outside the 7 known flags included, and the count of the decoded set is
\* the population count of the 7 known flag bits of the bitmask, which is
\* the population count of the bitmask when no other bit is set.
C11_DecodeLossless_CountKnown ==
    /\ DecodeEncodeLossless
    /\ CountShown
          => /\ shown.count = PopCount(hsOut.caps % (OSAX_ATTRIB_ALL + 1))
             /\ hsOut.caps <= OSAX_ATTRIB_ALL
                   => shown.count = PopCount(hsOut.caps)

\* status has printed 7 capabilities for a bitmask with 8 bits set
C11_Witness ==
    /\ command = "status"
    /\ pc = "cleanup"
    /\ HandshakeDone
    /\ hsOut.caps = 383
    /\ LE32(hsOut.caps) = <<127, 1, 0, 0>>
    /\ shown.count = 7

\* ---------------------------------------------------------------- C12
\* the service has answered with the well-formed success response of its
\* build, and the handshake has processed it
AnsweredWellFormed ==
    /\ wire.got
    /\ pc # "hs_exchange"
    /\ wire.bytes = encode_handshake_response(0, svc)

\* C12: when the service answers with a well-formed success response
\* carrying version v and bitmask m, the handshake succeeds and returns
\* exactly v and m; for "9.9.9" and 0x7F it returns "9.9.9" and a set with
\* all 7 flags, which the test command prints before it exits 0.
C12_HandshakeRoundTrip ==
    AnsweredWellFormed
        => /\ res = "Success"
           /\ hsOut = svc
           /\ svc = [ver |-> V999, caps |-> OSAX_ATTRIB_ALL]
                 => /\ hsOut.ver = <<57, 46, 57, 46, 57>>
                    /\ \A c \in MSS_CAPS : HasBit(hsOut.caps, c)
                    /\ (command = "test" /\ pc = "cleanup")
                          => /\ shown = [ver |-> V999, count |-> 7]
                             /\ result = 0

\* the test command has returned after the service answered "9.9.9", 0x7F
C12_Witness ==
    /\ command = "test"
    /\ pc = "cleanup"
    /\ wire.got
    /\ wire.bytes = encode_handshake_response(0, [ver |-> V999, caps |-> 127])
    /\ hsOut = [ver |-> V999, caps |-> 127]
    /\ shown.count = 7

\* ---------------------------------------------------------------- C13
Requirements == {"privileged user", "security posture", "boot flag"}

CheckReturned == command = "check" /\ pc = "cleanup"

\* C13: when the check command returns, the unmet set holds exactly the
\* requirements that are not met (caller not root, security posture not
\* permitting, boot-time flag missing); for a non-root caller the result is
\* RequirementsError with "privileged user" in the set and exit code 1,
\* whatever the other two requirements are.
C13_NonRootUnmet ==
    CheckReturned
        => /\ unmet \subseteq Requirements
           /\ "privileged user" \in unmet <=> ~env.root
           /\ "security posture" \in unmet <=> ~signals.sip
           /\ "boot flag" \in unmet <=> ~signals.bootarg
           /\ res = (IF unmet = {} THEN "Success" ELSE "RequirementsError")
           /\ ~env.root => /\ res = "RequirementsError"
                           /\ "privileged user" \in unmet
                           /\ result = 1

\* check by a non-root caller with the other two requirements met
C13_Witness ==
    /\ CheckReturned
    /\ ~env.root
    /\ signals = [sip |-> TRUE, bootarg |-> TRUE]
    /\ unmet = {"privileged user"}
    /\ res = "RequirementsError"

\* ---------------------------------------------------------------- C14
\* the command handler (or the dispatch, for an unknown command) has
\* returned to main
Returned == pc = "cleanup"

\* what the command printed includes a failure: a failed operation, a
\* failed sub-check, or fewer than 7 capabilities
ReportedFailure ==
    CASE command \in {"check", "install", "load", "uninstall"}
           -> res # "Success"
      [] command = "test"
           -> res # "Success" \/ shown.count # 7
      [] command = "status"
           -> "fail" \in {report.Installation, report.Loading,
                          report.Requirements}
      [] OTHER -> TRUE

\* C14 as stated: for each command, status included, the exit code is 0
\* when nothing the command reported is a failure and 1 when it reported a
\* failed operation or a failed sub-check.
C14_ExitCodeIffNoFailure ==
    Returned => /\ result \in {0, 1}
                /\ result = 0 <=> ~ReportedFailure

\* C14 amended: the exit code is 0 or 1; for check, install, load,
\* uninstall and test (and for an unknown command name) it is 0 when
\* nothing reported is a failure and 1 when a failed operation or a failed
\* sub-check was reported; the status command exits 0 whatever its
\* sub-checks report.
C14_ExitCodes ==
    /\ last.exit \in {0, 1}
    /\ Returned
          => /\ result \in {0, 1}
             /\ command # "status" => (result = 0 <=> ~ReportedFailure)
             /\ command = "status" => result = 0

\* the test command has exited 1 after a successful handshake that
\* returned fewer than 7 capabilities
C14_Witness ==
    /\ Returned
    /\ command = "test"
    /\ res = "Success"
    /\ shown.count \in 0..6
    /\ result = 1

\* ---------------------------------------------------------------- C15
\* status has printed its Installation and Loading lines
StateReported ==
    command = "status" /\ pc \in {"status_requirements", "cleanup"}

HandshakeReturned == pc \in {"status_loading", "cmd_test_ret", "load_verify"}

C17_LoggingStateSetOnce ==
    /\ [](pc # "idle" => logSink = "log_callback")
    /\ [][(pc # "idle" /\ pc' # "idle")
             => (logSink' = logSink /\ g_verbose' = g_verbose)]_vars

\* ---------------------------------------------------------------- C18
TestReturned == command = "test" /\ pc = "cleanup"

\* C18: the test command exits 0 exactly when the handshake succeeded and
\* the low 7 bits of the returned bitmask (0x01 to 0x40) are all set, and
\* exits 1 otherwise: on a failed handshake and on fewer than 7 flags;
\* the bits above them do not enter the outcome.
C18_TestFullyFunctional ==
    TestReturned
        => /\ result \in {0, 1}
           /\ result = 0
                 <=> /\ res = "Success"
                     /\ hsOut.caps % (OSAX_ATTRIB_ALL + 1) = OSAX_ATTRIB_ALL
           /\ res = "Success"
                 => shown.count
                      = PopCount(hsOut.caps % (OSAX_ATTRIB_ALL + 1))

\* test has exited 0 on a bitmask with all 7 flags and a bit outside them
C18_Witness ==
    /\ TestReturned
    /\ res = "Success"
    /\ hsOut.caps = OSAX_ATTRIB_ALL + 256
    /\ shown.count = 7
    /\ result = 0

\* ---------------------------------------------------------------- C19
HandlerRunning == pc \notin {"idle", "dispatch", "cleanup", "exit"}

\* C19: a context exists only in a process whose arguments parsed without
\* error and named a command; a command handler runs only while the
\* context is live, and at most one runs per process; main returns only
\* after mss_destroy, on every dispatch path, and the context goes from
\* created to destroyed once and never back.
C19_ContextLifetime ==
    /\ [](/\ handlers \in {0, 1}
          /\ pc = "idle" => (ctx = "none" /\ handlers = 0)
          /\ ctx # "none" => (command # "" /\ ~IsOption(command))
          /\ pc = "dispatch" => (ctx = "live" /\ handlers = 0)
          /\ HandlerRunning
                => (ctx = "live" /\ handlers = 1 /\ command \in Commands)
          /\ pc = "cleanup"
                => /\ ctx = "live"
                   /\ handlers = (IF command \in Commands THEN 1 ELSE 0)
          /\ pc = "exit" => ctx = "destroyed")
    /\ [][ctx' # ctx
            => \/ ctx = "none" /\ ctx' = "live" /\ pc = "idle"
               \/ ctx = "live" /\ ctx' = "destroyed" /\ pc = "cleanup"
               \/ ctx' = "none" /\ pc' = "idle"]_vars
    /\ [][(pc # "idle" /\ pc' = "idle") => (main_return \/ Kill)]_vars
    /\ [][handlers' > handlers => pc = "dispatch"]_vars

\* main is about to return 1 for an unknown command, the context destroyed
C19_Witness ==
    /\ pc = "exit"
    /\ command = "bogus"
    /\ ctx = "destroyed"
    /\ handlers = 0
    /\ result = 1

====
